---- MODULE Spec2Model ----
(***************************************************************************)
(* FinDocGPT: the TTL cache (core/cache_manager.py), the market-data       *)
(* access that sits on it (core/data_fetcher.py), the file ingestion       *)
(* dispatch (file_processor.py), question answering                        *)
(* (core/financial_analyzer.py, main.py), the forecasts                    *)
(* (core/forecasting_models.py, main.py), the recommendation rule          *)
(* (investment_strategy.py), the performance monitor                       *)
(* (core/performance_monitor.py) and the upload stage (main.py).           *)
(*                                                                         *)
(* Time is counted in whole minutes: datetime.now() is the variable now,   *)
(* timedelta(minutes=m) is TimeDelta(m).                                   *)
(***************************************************************************)
EXTENDS Integers, Sequences, FiniteSets, TLC

VARIABLES
    use_session_state,      \* CacheManager._use_session_state
    session_cache_store,    \* st.session_state.cache_store
    instance_cache_store,   \* CacheManager._cache_store
    has_monitor,            \* hasattr(st.session_state, 'performance_monitor')
    metrics,                \* PerformanceMonitor.metrics (the counters)
    now,                    \* datetime.now(), in minutes
    last,                   \* the last CacheManager call: arguments, result, entry it found
    history,                \* per key: what happened since its last set (history variable)
    call,                   \* the last DataFetcher call: arguments, result, what it did
    processed,              \* the last process_file call: the file, the extractor run, the result
    api_key,                \* os.getenv('OPENAI_API_KEY') as FinancialAnalyzer and GeminiAPI hold it
    qa,                     \* the last question asked: arguments, answer, what was called
    response_times,         \* PerformanceMonitor.response_times
    arrived,                \* every response time tracked so far, in order (history variable)
    analysis_run,           \* the last run of the document-analysis stage
    forecast,               \* the forecast being computed: inputs, predictions, bands
    decision                \* the last _determine_action call: arguments and result

(* the state of the analysis, monitoring and dashboard components *)
app_vars == <<api_key, qa, response_times, arrived, analysis_run, forecast, decision>>

vars == <<use_session_state, session_cache_store, instance_cache_store,
          has_monitor, metrics, now, last, history, call, processed, app_vars>>

---------------------------------------------------------------------------
(* Bounds of the model *)

MaxTime == 3
MaxTTL == 2
MaxTracked == 2

(* Python's None, and the empty dict {} *)
None == "None"
EmptyStore == [k \in {} |-> None]

---------------------------------------------------------------------------
(* core/cache_manager.py *)

(* json.dumps(params, sort_keys=True, default=str): the dict's items in key
   order, so two dicts with the same items give the same string whatever
   their insertion order *)
JsonDumps(params) ==
    {<<name, params[name]>> : name \in DOMAIN params}

(* _generate_key: f"{prefix}_{md5(param_str)}"; the digest is 32 hex
   characters, so the prefix and the digest are both recovered from the key;
   md5 is taken to be collision-free on the inputs drawn here *)
GenerateKey(prefix, params) ==
    <<prefix, JsonDumps(params)>>

TimeDelta(minutes) ==
    minutes

(* cache_store = st.session_state.cache_store if self._use_session_state
   else self._cache_store *)
CacheStore ==
    IF use_session_state THEN session_cache_store ELSE instance_cache_store

(* the guard of both tracking calls in get *)
Tracking ==
    use_session_state /\ has_monitor

track_cache_hit(m) ==
    [m EXCEPT !.cache_hits = @ + 1]

track_cache_miss(m) ==
    [m EXCEPT !.cache_misses = @ + 1]

track_api_call(m) ==
    [m EXCEPT !.api_calls = @ + 1]

(* a / b of two numbers, kept as the pair it was computed from *)
Ratio(num, den) == [num |-> num, den |-> den]

(* PerformanceMonitor.__init__: the counters (memory_usage and start_time are
   not modelled) *)
NewMetrics ==
    [api_calls |-> 0, cache_hits |-> 0, cache_misses |-> 0,
     total_requests |-> 0, avg_response_time |-> Ratio(0, 1)]

(* del cache_store[key] *)
Delete(cs, key) ==
    [k \in DOMAIN cs \ {key} |-> cs[k]]

(* cache_store[key] = item *)
Assign(cs, key, item) ==
    [k \in DOMAIN cs \cup {key} |-> IF k = key THEN item ELSE cs[k]]

(* Fresh with the boundary on the wrong side: an entry aged exactly the TTL is served *)
FreshInclusive(item, ttl_minutes, t) ==
    t - item.timestamp <= TimeDelta(ttl_minutes)

(* get, line 41: the entry is served when its age is below the TTL *)
Fresh(item, ttl_minutes, t) ==
    t - item.timestamp < TimeDelta(ttl_minutes)

(* get, lines 37-41: the branch that returns cached_item['data'] *)
GetHit(cs, key, ttl_minutes, t) ==
    key \in DOMAIN cs /\ Fresh(cs[key], ttl_minutes, t)

(* get: the value returned *)
GetReturn(cs, key, ttl_minutes, t) ==
    IF GetHit(cs, key, ttl_minutes, t) THEN cs[key].data ELSE None

(* GetStore with a sliding expiry: a hit rewrites the entry's timestamp *)
GetStoreTouch(cs, key, ttl_minutes, t) ==
    IF key \notin DOMAIN cs THEN cs
    ELSE IF Fresh(cs[key], ttl_minutes, t)
    THEN Assign(cs, key, [data |-> cs[key].data, timestamp |-> t])
    ELSE Delete(cs, key)

(* GetStore that leaves an expired entry in the store *)
GetStoreKeep(cs, key, ttl_minutes, t) ==
    cs

(* get: the store it leaves (an expired entry is deleted) *)
GetStore(cs, key, ttl_minutes, t) ==
    IF key \in DOMAIN cs /\ ~Fresh(cs[key], ttl_minutes, t)
    THEN Delete(cs, key)
    ELSE cs

(* get: the counters it leaves *)
GetMetrics(m, cs, key, ttl_minutes, t) ==
    IF ~Tracking THEN m
    ELSE IF GetHit(cs, key, ttl_minutes, t) THEN track_cache_hit(m)
    ELSE track_cache_miss(m)

(* SetStore that keeps an entry already there (a setdefault) *)
SetStoreKeepFirst(cs, key, data, t) ==
    IF key \in DOMAIN cs THEN cs
    ELSE Assign(cs, key, [data |-> data, timestamp |-> t])

(* SetStore with a size bound of one entry: the write evicts the others *)
SetStoreEvict(cs, key, data, t) ==
    [k \in {key} |-> [data |-> data, timestamp |-> t]]

(* set: the store it leaves *)
SetStore(cs, key, data, t) ==
    Assign(cs, key, [data |-> data, timestamp |-> t])

(* clear_expired, line 78: the entries it collects in expired_keys *)
ExpiredKeys(cs, ttl_minutes, t) ==
    {k \in DOMAIN cs : t - cs[k].timestamp > TimeDelta(ttl_minutes)}

(* clear_expired: the store it leaves *)
ClearExpiredStore(cs, ttl_minutes, t) ==
    [k \in DOMAIN cs \ ExpiredKeys(cs, ttl_minutes, t) |-> cs[k]]

(* the store an operation leaves goes back to the store it was read from *)
WriteStore(cs) ==
    IF use_session_state
    THEN session_cache_store' = cs /\ UNCHANGED instance_cache_store
    ELSE instance_cache_store' = cs /\ UNCHANGED session_cache_store

(* room left in the counters get may increment *)
CanTrack ==
    ~Tracking \/ metrics.cache_hits + metrics.cache_misses < MaxTracked

---------------------------------------------------------------------------
(* The cache driven through its public methods *)

(* the (prefix, params) pairs the calls are drawn from *)
Requests ==
    { <<"test_data", [symbol |-> "AAPL", period |-> "1y"]>>,
      <<"test_data", [symbol |-> "MSFT", period |-> "1y"]>> }
Data == {"d1", "d2"}
TTLs == 1..MaxTTL

Keys == {GenerateKey(r[1], r[2]) : r \in Requests}

(* the key field of a call that has none *)
NoKey == <<"", {}>>

NoCall == [op |-> "none", key |-> NoKey, ttl |-> 0, ret |-> None, outcome |-> None, age |-> -1]

NoFetch == [op |-> "none", args |-> <<>>]
NoFile == [op |-> "none", count |-> 0]

(* the analysis, monitoring and dashboard components before their first call *)
AppIdle ==
    /\ api_key = None
    /\ qa = [op |-> "none"]
    /\ response_times = <<>>
    /\ arrived = <<>>
    /\ analysis_run = [op |-> "none"]
    /\ forecast = [op |-> "none"]
    /\ decision = [op |-> "none"]

(* history[k]: what has happened to key k since its last set
     never         no set yet
     set           set(data) at timestamp, and since then only hits and calls on other keys
     expired_read  set(data) at timestamp, and since then a get that found it expired
     swept         a clear_expired call since its last set
     cleared       a clear_all call since its last set *)
Untold(status) == [status |-> status, data |-> None, timestamp |-> -1]

CacheInit ==
    /\ use_session_state \in BOOLEAN
    /\ has_monitor \in BOOLEAN
    /\ use_session_state = FALSE => has_monitor = FALSE
    /\ session_cache_store = EmptyStore
    /\ instance_cache_store = EmptyStore
    /\ metrics = NewMetrics
    /\ now = 0
    /\ history = [k \in Keys |-> Untold("never")]

Init ==
    /\ CacheInit
    /\ last = NoCall
    /\ call = NoFetch
    /\ processed = NoFile
    /\ AppIdle

(* which of the three paths through get was taken *)
GetOutcome(cs, key, ttl_minutes, t) ==
    IF key \notin DOMAIN cs THEN "absent"
    ELSE IF GetHit(cs, key, ttl_minutes, t) THEN "hit"
    ELSE "expired"

Get(prefix, params, ttl_minutes) ==
    LET key == GenerateKey(prefix, params)
        cs == CacheStore
    IN  /\ CanTrack
        /\ WriteStore(GetStore(cs, key, ttl_minutes, now))
        /\ metrics' = GetMetrics(metrics, cs, key, ttl_minutes, now)
        /\ last' = [op |-> "get", key |-> key, ttl |-> ttl_minutes,
                    ret |-> GetReturn(cs, key, ttl_minutes, now),
                    outcome |-> GetOutcome(cs, key, ttl_minutes, now),
                    age |-> IF key \in DOMAIN cs THEN now - cs[key].timestamp ELSE -1]
        /\ history' = IF GetOutcome(cs, key, ttl_minutes, now) = "expired"
                         /\ history[key].status = "set"
                      THEN [history EXCEPT ![key].status = "expired_read"]
                      ELSE history
        /\ UNCHANGED <<use_session_state, has_monitor, now, call, processed, app_vars>>

Set(prefix, params, data) ==
    LET key == GenerateKey(prefix, params)
        cs == CacheStore
    IN  /\ WriteStore(SetStore(cs, key, data, now))
        /\ last' = [NoCall EXCEPT !.op = "set", !.key = key]
        /\ history' = [history EXCEPT ![key] =
                          [status |-> "set", data |-> data, timestamp |-> now]]
        /\ UNCHANGED <<use_session_state, has_monitor, metrics, now, call, processed,
                   app_vars>>

ClearExpired(ttl_minutes) ==
    /\ WriteStore(ClearExpiredStore(CacheStore, ttl_minutes, now))
    /\ last' = [NoCall EXCEPT !.op = "clear_expired", !.ttl = ttl_minutes]
    /\ history' = [k \in Keys |->
                      IF history[k].status \in {"set", "expired_read"}
                      THEN Untold("swept") ELSE history[k]]
    /\ UNCHANGED <<use_session_state, has_monitor, metrics, now, call, processed,
                   app_vars>>

(* ClearAll that always resets the instance store, whichever store is in use *)
ClearAllInstanceOnly ==
    /\ instance_cache_store' = EmptyStore
    /\ last' = [NoCall EXCEPT !.op = "clear_all"]
    /\ history' = [k \in Keys |->
                      IF history[k].status = "never"
                      THEN history[k] ELSE Untold("cleared")]
    /\ UNCHANGED <<use_session_state, session_cache_store, has_monitor, metrics, now,
                   call, processed, app_vars>>

(* clear_all: the store in use is replaced by {}; the except branch (the
   session state raising on assignment) cannot be taken once __init__ found
   the session state usable *)
ClearAll ==
    /\ WriteStore(EmptyStore)
    /\ last' = [NoCall EXCEPT !.op = "clear_all"]
    /\ history' = [k \in Keys |->
                      IF history[k].status = "never"
                      THEN history[k] ELSE Untold("cleared")]
    /\ UNCHANGED <<use_session_state, has_monitor, metrics, now, call, processed,
                   app_vars>>

(* a minute passes between two calls *)
Tick ==
    /\ now < MaxTime
    /\ now' = now + 1
    /\ UNCHANGED <<use_session_state, session_cache_store, instance_cache_store,
                   has_monitor, metrics, last, history, call, processed,
                   app_vars>>

DoGet ==
    \E r \in Requests, ttl_minutes \in TTLs :
        Get(r[1], r[2], ttl_minutes)

DoSet ==
    \E r \in Requests, data \in Data :
        Set(r[1], r[2], data)

DoClearExpired ==
    \E ttl_minutes \in TTLs : ClearExpired(ttl_minutes)

Next ==
    \/ DoGet
    \/ DoSet
    \/ DoClearExpired
    \/ ClearAll
    \/ Tick

Spec == Init /\ [][Next]_vars

---------------------------------------------------------------------------
(* core/data_fetcher.py: DataFetcher over the module-level cache *)

IntradayTTL == 15
DailyTTL == 60
StockInfoTTL == 240
SectorTTL == 60
MaxCounted == 4

(* get_stock_data, line 33 *)
StockDataTTL(interval) ==
    IF interval \in {"1m", "5m", "15m", "30m", "1h"} THEN IntradayTTL ELSE DailyTTL

(* self.sector_etfs.get(sector): the ETF of a known sector, None otherwise *)
SectorETF(sector) ==
    CASE sector = "Technology" -> "XLK"
      [] sector = "Healthcare" -> "XLV"
      [] OTHER -> None

(* what stock.history(...) can do: raise, return an empty frame, return a frame *)
RawFrames == {"raw1", "raw2"}
HistoryOutcomes == {"raise", "empty"} \cup RawFrames

(* what stock.info can do: raise, return the info dict *)
InfoOutcomes == {"raise", "info"}

(* _add_technical_indicators: the frame with the indicator columns added *)
AddTechnicalIndicators(data) ==
    CASE data = "raw1" -> "frame1"
      [] data = "raw2" -> "frame2"

(* get_sector_data, lines 119-128: the dict computed from the frame's Close column *)
SectorDataOf(data) ==
    CASE data = "frame1" -> "sector1"
      [] data = "frame2" -> "sector2"

EmptyDict == "{}"

(* get_stock_data with every TTL at the intraday value *)
StockDataAllIntraday(cs, m, t, symbol, period, interval, outcome) ==
    LET key == GenerateKey("stock_data",
                           [symbol |-> symbol, period |-> period, interval |-> interval])
        cached_data == GetReturn(cs, key, IntradayTTL, t)
        cs1 == GetStore(cs, key, IntradayTTL, t)
        m1 == GetMetrics(m, cs, key, IntradayTTL, t)
        m2 == IF has_monitor THEN track_api_call(m1) ELSE m1
    IN  IF cached_data # None
        THEN [store |-> cs1, metrics |-> m1, ret |-> cached_data, provider_calls |-> 0,
              banners |-> <<>>, raised |-> FALSE, fetched |-> {}]
        ELSE IF outcome = "raise"
        THEN [store |-> cs1, metrics |-> m2, ret |-> None, provider_calls |-> 1,
              banners |-> <<"Error fetching data">>, raised |-> FALSE, fetched |-> {}]
        ELSE IF outcome = "empty"
        THEN [store |-> cs1, metrics |-> m2, ret |-> None, provider_calls |-> 1,
              banners |-> <<>>, raised |-> FALSE, fetched |-> {}]
        ELSE [store |-> SetStore(cs1, key, AddTechnicalIndicators(outcome), t),
              metrics |-> m2, ret |-> AddTechnicalIndicators(outcome),
              provider_calls |-> 1, banners |-> <<>>, raised |-> FALSE, fetched |-> {key}]

(* get_stock_data that stores what the provider returned also when the frame
   is empty *)
StockDataCacheFailure(cs, m, t, symbol, period, interval, outcome) ==
    LET key == GenerateKey("stock_data",
                           [symbol |-> symbol, period |-> period, interval |-> interval])
        ttl == StockDataTTL(interval)
        cached_data == GetReturn(cs, key, ttl, t)
        cs1 == GetStore(cs, key, ttl, t)
        m1 == GetMetrics(m, cs, key, ttl, t)
        m2 == IF has_monitor THEN track_api_call(m1) ELSE m1
    IN  IF cached_data # None
        THEN [store |-> cs1, metrics |-> m1, ret |-> cached_data, provider_calls |-> 0,
              banners |-> <<>>, raised |-> FALSE, fetched |-> {}]
        ELSE IF outcome = "raise"
        THEN [store |-> cs1, metrics |-> m2, ret |-> None, provider_calls |-> 1,
              banners |-> <<"Error fetching data">>, raised |-> FALSE, fetched |-> {}]
        ELSE IF outcome = "empty"
        THEN [store |-> SetStore(cs1, key, "empty", t), metrics |-> m2, ret |-> None,
              provider_calls |-> 1, banners |-> <<>>, raised |-> FALSE, fetched |-> {}]
        ELSE [store |-> SetStore(cs1, key, AddTechnicalIndicators(outcome), t),
              metrics |-> m2, ret |-> AddTechnicalIndicators(outcome),
              provider_calls |-> 1, banners |-> <<>>, raised |-> FALSE, fetched |-> {key}]

(* get_stock_data(symbol, period, interval) on store cs, counters m, at time t,
   with the provider doing `outcome` if it is called: the store and counters it
   leaves, what it returns, the provider calls it made, the banners it showed
   and whether an exception left it *)
StockData(cs, m, t, symbol, period, interval, outcome) ==
    LET key == GenerateKey("stock_data",
                           [symbol |-> symbol, period |-> period, interval |-> interval])
        ttl == StockDataTTL(interval)
        cached_data == GetReturn(cs, key, ttl, t)
        cs1 == GetStore(cs, key, ttl, t)
        m1 == GetMetrics(m, cs, key, ttl, t)
        m2 == IF has_monitor THEN track_api_call(m1) ELSE m1
    IN  IF cached_data # None
        THEN [store |-> cs1, metrics |-> m1, ret |-> cached_data, provider_calls |-> 0,
              banners |-> <<>>, raised |-> FALSE, fetched |-> {}]
        ELSE IF outcome = "raise"
        THEN [store |-> cs1, metrics |-> m2, ret |-> None, provider_calls |-> 1,
              banners |-> <<"Error fetching data">>, raised |-> FALSE, fetched |-> {}]
        ELSE IF outcome = "empty"
        THEN [store |-> cs1, metrics |-> m2, ret |-> None, provider_calls |-> 1,
              banners |-> <<>>, raised |-> FALSE, fetched |-> {}]
        ELSE [store |-> SetStore(cs1, key, AddTechnicalIndicators(outcome), t),
              metrics |-> m2, ret |-> AddTechnicalIndicators(outcome),
              provider_calls |-> 1, banners |-> <<>>, raised |-> FALSE, fetched |-> {key}]

(* get_stock_info that lets the provider's exception through *)
StockInfoUncaught(cs, m, t, symbol, outcome) ==
    LET key == GenerateKey("stock_info", [symbol |-> symbol])
        cached_info == GetReturn(cs, key, StockInfoTTL, t)
        cs1 == GetStore(cs, key, StockInfoTTL, t)
        m1 == GetMetrics(m, cs, key, StockInfoTTL, t)
    IN  IF cached_info # None
        THEN [store |-> cs1, metrics |-> m1, ret |-> cached_info, provider_calls |-> 0,
              banners |-> <<>>, raised |-> FALSE, fetched |-> {}]
        ELSE IF outcome = "raise"
        THEN [store |-> cs1, metrics |-> m1, ret |-> None, provider_calls |-> 1,
              banners |-> <<>>, raised |-> TRUE, fetched |-> {}]
        ELSE [store |-> SetStore(cs1, key, outcome, t), metrics |-> m1, ret |-> outcome,
              provider_calls |-> 1, banners |-> <<>>, raised |-> FALSE, fetched |-> {}]

(* get_stock_info(symbol) *)
StockInfo(cs, m, t, symbol, outcome) ==
    LET key == GenerateKey("stock_info", [symbol |-> symbol])
        cached_info == GetReturn(cs, key, StockInfoTTL, t)
        cs1 == GetStore(cs, key, StockInfoTTL, t)
        m1 == GetMetrics(m, cs, key, StockInfoTTL, t)
    IN  IF cached_info # None
        THEN [store |-> cs1, metrics |-> m1, ret |-> cached_info, provider_calls |-> 0,
              banners |-> <<>>, raised |-> FALSE, fetched |-> {}]
        ELSE IF outcome = "raise"
        THEN [store |-> cs1, metrics |-> m1, ret |-> EmptyDict, provider_calls |-> 1,
              banners |-> <<"Error fetching info">>, raised |-> FALSE, fetched |-> {}]
        ELSE [store |-> SetStore(cs1, key, outcome, t), metrics |-> m1, ret |-> outcome,
              provider_calls |-> 1, banners |-> <<>>, raised |-> FALSE, fetched |-> {}]

(* get_sector_data(sector); the frame comes from get_stock_data(etf_symbol,
   period="1mo") with the default interval "1d" *)
SectorData(cs, m, t, sector, outcome) ==
    LET etf_symbol == SectorETF(sector)
        key == GenerateKey("sector_data", [sector |-> sector, etf |-> etf_symbol])
        cached_data == GetReturn(cs, key, SectorTTL, t)
        cs1 == GetStore(cs, key, SectorTTL, t)
        m1 == GetMetrics(m, cs, key, SectorTTL, t)
        inner == StockData(cs1, m1, t, etf_symbol, "1mo", "1d", outcome)
    IN  IF etf_symbol = None
        THEN [store |-> cs, metrics |-> m, ret |-> None, provider_calls |-> 0,
              banners |-> <<>>, raised |-> FALSE, fetched |-> {}]
        ELSE IF cached_data # None
        THEN [store |-> cs1, metrics |-> m1, ret |-> cached_data, provider_calls |-> 0,
              banners |-> <<>>, raised |-> FALSE, fetched |-> {}]
        ELSE IF inner.ret # None
        THEN [inner EXCEPT !.store = SetStore(inner.store, key, SectorDataOf(inner.ret), t),
                           !.ret = SectorDataOf(inner.ret)]
        ELSE inner

(* the counters stay within the model's range *)
Counted(m) ==
    m.api_calls + m.cache_hits + m.cache_misses <= MaxCounted

(* the instants at which calls are made, in minutes *)
Instants == {0, 14, 15, 59}

StockRequests == { <<"AAPL", "5d", "1h">>, <<"XLK", "1mo", "1d">> }

StockKeys ==
    {GenerateKey("stock_data", [symbol |-> q[1], period |-> q[2], interval |-> q[3]]) :
        q \in StockRequests}
Symbols == {"AAPL"}
Sectors == {"Technology", "Unknown"}

(* here history[k], for the key k of a get_stock_data request, is the frame and
   the time of the last fetch that get_stock_data stored under k *)
FetchInit ==
    /\ use_session_state \in BOOLEAN
    /\ has_monitor \in BOOLEAN
    /\ use_session_state = FALSE => has_monitor = FALSE
    /\ session_cache_store = EmptyStore
    /\ instance_cache_store = EmptyStore
    /\ metrics = NewMetrics
    /\ now = 0
    /\ history = [k \in StockKeys |-> Untold("never")]
    /\ last = NoCall
    /\ call = [op |-> "none", args |-> <<>>, outcome |-> None, ret |-> None,
               provider_calls |-> 0, banners |-> <<>>, raised |-> FALSE]
    /\ processed = NoFile
    /\ AppIdle

(* the effects of one DataFetcher call, and its record *)
Fetched(op, args, outcome, r) ==
    /\ Counted(r.metrics)
    /\ WriteStore(r.store)
    /\ metrics' = r.metrics
    /\ call' = [op |-> op, args |-> args,
                outcome |-> IF r.provider_calls = 0 THEN "not called" ELSE outcome,
                ret |-> r.ret, provider_calls |-> r.provider_calls,
                banners |-> r.banners, raised |-> r.raised]
    /\ history' = [k \in StockKeys |->
                      IF k \in r.fetched
                      THEN [status |-> "fetched", data |-> r.store[k].data, timestamp |-> now]
                      ELSE history[k]]
    /\ UNCHANGED <<use_session_state, has_monitor, now, last, processed, app_vars>>

GetStockData ==
    \E q \in StockRequests, outcome \in HistoryOutcomes :
        Fetched("get_stock_data", q, outcome,
                StockData(CacheStore, metrics, now, q[1], q[2], q[3], outcome))

GetStockInfo ==
    \E symbol \in Symbols, outcome \in InfoOutcomes :
        Fetched("get_stock_info", <<symbol>>, outcome,
                StockInfo(CacheStore, metrics, now, symbol, outcome))

GetSectorData ==
    \E sector \in Sectors, outcome \in HistoryOutcomes :
        Fetched("get_sector_data", <<sector>>, outcome,
                SectorData(CacheStore, metrics, now, sector, outcome))

(* time passes between two calls *)
Elapse ==
    /\ \E t \in Instants : t > now /\ now' = t
    /\ UNCHANGED <<use_session_state, session_cache_store, instance_cache_store,
                   has_monitor, metrics, last, history, call, processed,
                   app_vars>>

FetchNext ==
    \/ GetStockData
    \/ GetStockInfo
    \/ GetSectorData
    \/ Elapse

SpecFetch == FetchInit /\ [][FetchNext]_vars

---------------------------------------------------------------------------
(* file_processor.py: AdvancedFileProcessor.process_file *)

(* Python values of the ingestion path: None, a str, a dict (its keys) *)
PyNone == [kind |-> "None"]
Str(value) == [kind |-> "str", value |-> value]
Dict(keys) == [kind |-> "dict", keys |-> keys]

(* the processors dict of process_file, lines 58-71: processors.get(file_type) *)
ProcessorLegacyExcelMissing(file_type) ==
    CASE file_type = "text/plain" -> "_process_text"
      [] file_type = "application/pdf" -> "_process_pdf"
      [] file_type = "application/vnd.openxmlformats-officedocument.wordprocessingml.document"
            -> "_process_docx"
      [] file_type = "application/vnd.openxmlformats-officedocument.presentationml.presentation"
            -> "_process_pptx"
      [] file_type = "application/vnd.openxmlformats-officedocument.spreadsheetml.sheet"
            -> "_process_excel"
      [] file_type = "text/csv" -> "_process_csv"
      [] file_type = "application/json" -> "_process_json"
      [] file_type = "application/xml" -> "_process_xml"
      [] file_type = "text/xml" -> "_process_xml"
      [] OTHER -> None

Processor(file_type) ==
    CASE file_type = "text/plain" -> "_process_text"
      [] file_type = "application/pdf" -> "_process_pdf"
      [] file_type = "application/vnd.openxmlformats-officedocument.wordprocessingml.document"
            -> "_process_docx"
      [] file_type = "application/vnd.openxmlformats-officedocument.presentationml.presentation"
            -> "_process_pptx"
      [] file_type = "application/vnd.openxmlformats-officedocument.spreadsheetml.sheet"
            -> "_process_excel"
      [] file_type = "application/vnd.ms-excel" -> "_process_excel"
      [] file_type = "text/csv" -> "_process_csv"
      [] file_type = "application/json" -> "_process_json"
      [] file_type = "application/xml" -> "_process_xml"
      [] file_type = "text/xml" -> "_process_xml"
      [] OTHER -> None

(* get_file_info: the keys of the dict it builds *)
FileInfoKeys == {"name", "type", "size_bytes", "size_mb", "format_info"}

(* the keys of the metadata dict each extraction routine builds *)
MetadataKeys(extractor) ==
    CASE extractor = "_process_text" -> {"file_type", "encoding", "lines", "characters", "words"}
      [] extractor = "_process_pdf" ->
            {"file_type", "pages", "tables", "images", "characters", "words"}
      [] extractor = "_process_docx" ->
            {"file_type", "paragraphs", "tables", "sections", "characters", "words"}
      [] extractor = "_process_pptx" ->
            {"file_type", "slides", "total_shapes", "tables", "characters", "words"}
      [] extractor = "_process_excel" ->
            {"file_type", "sheets", "total_rows", "total_columns", "numeric_columns",
             "characters", "words"}
      [] extractor = "_process_csv" ->
            {"file_type", "rows", "columns", "numeric_columns", "missing_values",
             "characters", "words"}
      [] extractor = "_process_json" -> {"file_type", "structure", "characters", "words"}
      [] extractor = "_process_xml" -> {"file_type", "root_element", "characters", "words"}

(* what the bytes of the file make the parsing library do inside an extraction
   routine:
     text             it yields text
     empty            it yields no text at all (content == "")
     library_error    it raises inside the routine's try
     undecodable      _process_text: the bytes are not UTF-8, latin-1 decodes them
     undecodable_err  _process_text: not UTF-8, and the second read raises
     read_error       _process_text: the first read raises something other than
                      UnicodeDecodeError *)
Behaviours(extractor) ==
    CASE extractor = "_process_text" ->
            {"text", "empty", "undecodable", "undecodable_err", "read_error"}
      [] extractor \in {"_process_pdf", "_process_docx", "_process_pptx"} ->
            {"text", "empty", "library_error"}
      [] OTHER -> {"text", "library_error"}

(* one extraction routine on one file: what it returns, the banners it shows,
   whether an exception leaves it *)
Extract(extractor, behaviour) ==
    CASE behaviour \in {"text", "undecodable"} ->
            [content |-> Str("text"), metadata |-> Dict(MetadataKeys(extractor)),
             banners |-> <<>>, raised |-> FALSE]
      [] behaviour = "empty" ->
            [content |-> Str(""), metadata |-> Dict(MetadataKeys(extractor)),
             banners |-> <<>>, raised |-> FALSE]
      [] behaviour \in {"library_error", "undecodable_err"} ->
            [content |-> PyNone, metadata |-> PyNone,
             banners |-> <<"Error processing format">>, raised |-> FALSE]
      [] behaviour = "read_error" ->
            [content |-> PyNone, metadata |-> PyNone, banners |-> <<>>, raised |-> TRUE]

(* `if content:` with `is not None` in its place *)
TruthyNotNone(value) ==
    value.kind # "None"

(* `if content:` *)
Truthy(value) ==
    value.kind = "str" /\ value.value # ""

(* metadata.update(file_info) *)
Update(metadata, keys) ==
    Dict(metadata.keys \cup keys)

(* process_file(uploaded_file), the library behaving as `behaviour` *)
ProcessFileResult(uploaded_file, behaviour) ==
    LET processor == Processor(uploaded_file.type)
        r == Extract(processor, behaviour)
        info == <<"Processing">>
    IN  IF processor = None
        THEN [content |-> PyNone, metadata |-> PyNone, extractors |-> <<>>,
              banners |-> info \o <<"Unsupported file format">>, raised |-> FALSE]
        ELSE IF r.raised
        THEN [content |-> PyNone, metadata |-> PyNone, extractors |-> <<processor>>,
              banners |-> info \o r.banners \o <<"Error processing file">>,
              raised |-> FALSE]
        ELSE IF Truthy(r.content)
        THEN [content |-> r.content, metadata |-> Update(r.metadata, FileInfoKeys),
              extractors |-> <<processor>>, banners |-> info \o r.banners,
              raised |-> FALSE]
        ELSE [content |-> PyNone, metadata |-> PyNone, extractors |-> <<processor>>,
              banners |-> info \o r.banners \o <<"Failed to extract content">>,
              raised |-> FALSE]

(* the declared types of the uploads: the ten registered ones and others *)
SupportedTypes ==
    { "text/plain", "application/pdf",
      "application/vnd.openxmlformats-officedocument.wordprocessingml.document",
      "application/vnd.openxmlformats-officedocument.presentationml.presentation",
      "application/vnd.openxmlformats-officedocument.spreadsheetml.sheet",
      "application/vnd.ms-excel", "text/csv", "application/json",
      "application/xml", "text/xml" }
OtherTypes == {"image/png", "application/msword", ""}
FileNames == {"report.pdf", "notes.txt"}
MaxFiles == 2

UploadedFiles ==
    [name : FileNames, type : SupportedTypes \cup OtherTypes]

FileInit ==
    /\ CacheInit
    /\ last = NoCall
    /\ call = NoFetch
    /\ processed = NoFile
    /\ AppIdle

(* one call of process_file *)
ProcessFile ==
    \E uploaded_file \in UploadedFiles :
      \E behaviour \in (IF Processor(uploaded_file.type) = None
                        THEN {"not read"}
                        ELSE Behaviours(Processor(uploaded_file.type))) :
        /\ processed.count < MaxFiles
        /\ processed' = [op |-> "process_file", count |-> processed.count + 1,
                         file |-> uploaded_file, behaviour |-> behaviour,
                         result |-> ProcessFileResult(uploaded_file, behaviour)]
        /\ UNCHANGED <<use_session_state, session_cache_store, instance_cache_store,
                       has_monitor, metrics, now, last, history, call,
                   app_vars>>

FileNext ==
    ProcessFile

SpecFile == FileInit /\ [][FileNext]_vars

---------------------------------------------------------------------------
(* Claims about the cache *)

(* C1 as stated: after set(prefix, params, data), a get on the same key while
   the entry is younger than ttl minutes, with no clear_all, clear_expired or
   other set on the key in between, returns the data that was set. *)
C1_RoundTripAsStated ==
    [][\A r \in Requests, ttl \in TTLs :
          LET key == GenerateKey(r[1], r[2])
          IN  ( /\ Get(r[1], r[2], ttl)
                /\ history[key].status \in {"set", "expired_read"}
                /\ now - history[key].timestamp < ttl )
              => last'.ret = history[key].data]_vars

(* C1 amended: the same, provided also that no get on the key has found the
   entry expired (and so deleted it) in between. *)
C1_RoundTrip ==
    [][\A r \in Requests, ttl \in TTLs :
          LET key == GenerateKey(r[1], r[2])
          IN  ( /\ Get(r[1], r[2], ttl)
                /\ history[key].status = "set"
                /\ now - history[key].timestamp < ttl )
              => last'.ret = history[key].data]_vars

C1_Witness ==
    /\ last.op = "get"
    /\ history[last.key].status = "set"
    /\ last.age = 1
    /\ last.ttl = 2
    /\ last.ret = "d2"

(* C2: get returns the stored data exactly when an entry exists for the key and
   its age is strictly below ttl_minutes, and None in every other case; an
   entry whose age has reached the TTL is never served. *)
C2_TTLExpiry ==
    [][\A r \in Requests, ttl \in TTLs :
          LET key == GenerateKey(r[1], r[2])
              served == key \in DOMAIN CacheStore
                        /\ now - CacheStore[key].timestamp < ttl
          IN  Get(r[1], r[2], ttl) =>
                /\ served => last'.ret = CacheStore[key].data /\ last'.ret # None
                /\ ~served => last'.ret = None]_vars

C2_Witness ==
    /\ last.op = "get"
    /\ last.outcome = "expired"
    /\ last.age = last.ttl
    /\ last.ret = None

(* C3: the TTL belongs to the call, not to the entry: set stores the value and
   the write time and nothing else; a get on an existing entry of age a hits
   when its own ttl > a and misses when ttl <= a; a hit leaves the entry as it
   was, so the TTL of an earlier hit has no bearing on a later get. *)
C3_TTLPerCall ==
    [][/\ \A r \in Requests, data \in Data :
            Set(r[1], r[2], data) =>
                CacheStore'[GenerateKey(r[1], r[2])] = [data |-> data, timestamp |-> now]
       /\ \A r \in Requests, ttl \in TTLs :
            LET key == GenerateKey(r[1], r[2])
            IN  (Get(r[1], r[2], ttl) /\ key \in DOMAIN CacheStore) =>
                  LET a == now - CacheStore[key].timestamp
                  IN  /\ ttl > a => /\ last'.ret = CacheStore[key].data
                                    /\ CacheStore' = CacheStore
                      /\ ttl <= a => last'.ret = None]_vars

C3_Witness ==
    /\ last.op = "get"
    /\ last.outcome = "hit"
    /\ last.ttl = 2
    /\ last.age = 1
    /\ metrics.cache_hits = 2

(* the entry under key k, absent or present *)
EntryOf(cs, k) ==
    IF k \in DOMAIN cs THEN <<"entry", cs[k].data, cs[k].timestamp>> ELSE <<"absent", None, -1>>

(* C4: set writes the entry of its own key and leaves every other entry as it
   was; get changes at most the entry of its own key; an entry leaves the store
   only through a get on its key that finds it expired, clear_expired or
   clear_all. *)
C4_NoEviction ==
    [][/\ \A k \in Keys :
            (last'.op \in {"set", "get"} /\ last' # last /\ last'.key # k)
                => EntryOf(CacheStore', k) = EntryOf(CacheStore, k)
       /\ \A k \in DOMAIN CacheStore \ DOMAIN CacheStore' :
            \/ last'.op \in {"clear_expired", "clear_all"}
            \/ /\ last'.op = "get"
               /\ last'.key = k
               /\ now - CacheStore[k].timestamp >= last'.ttl]_vars

C4_Witness ==
    /\ last.op = "set"
    /\ DOMAIN CacheStore = Keys
    /\ \E k \in Keys : k # last.key /\ CacheStore[k].timestamp < CacheStore[last.key].timestamp

(* C5: after clear_expired(ttl_minutes) the store holds no entry that a get with
   the same ttl_minutes would treat as expired (age >= ttl_minutes), and every
   entry such a get would serve is kept unchanged. *)
C5_ClearExpiredClearsAllExpired ==
    [][\A ttl \in TTLs :
          ClearExpired(ttl) =>
            /\ \A k \in DOMAIN CacheStore' : ~(now - CacheStore'[k].timestamp >= ttl)
            /\ \A k \in DOMAIN CacheStore :
                  now - CacheStore[k].timestamp < ttl
                      => EntryOf(CacheStore', k) = EntryOf(CacheStore, k)]_vars

(* C6: clear_all leaves the store in use empty, and from then on a get on any
   key returns None until that key is set again; in the session-state-backed
   and in the instance-backed store alike. *)
C6_ClearAllEmpties ==
    [][/\ last'.op = "clear_all" => CacheStore' = EmptyStore
       /\ \A r \in Requests, ttl \in TTLs :
            (Get(r[1], r[2], ttl) /\ history[GenerateKey(r[1], r[2])].status = "cleared")
                => last'.ret = None]_vars

C6_Witness ==
    /\ last.op = "get"
    /\ history[last.key].status = "cleared"
    /\ last.ret = None
    /\ use_session_state
    /\ \E k \in Keys : k # last.key /\ k \in DOMAIN CacheStore

---------------------------------------------------------------------------
(* Claims about the market-data access *)

(* C7: once get_stock_data has fetched a non-empty frame for (symbol, period,
   interval), every later call with the same arguments made less than TTL
   minutes after that fetch (15 for the intervals 1m, 5m, 15m, 30m, 1h, 60 for
   any other) returns that frame, calls the provider not at all and tracks no
   API call. (Every step but Elapse is a DataFetcher call and leaves its record
   in call, so a step that keeps now and ends with call.op = "get_stock_data"
   is a get_stock_data call with the arguments call.args.) *)
C7_ServedFromCache ==
    [][\A q \in StockRequests :
          LET key == GenerateKey("stock_data",
                                 [symbol |-> q[1], period |-> q[2], interval |-> q[3]])
              ttl == IF q[3] \in {"1m", "5m", "15m", "30m", "1h"} THEN 15 ELSE 60
          IN  ( /\ now' = now
                /\ call'.op = "get_stock_data"
                /\ call'.args = q
                /\ history[key].status = "fetched"
                /\ now - history[key].timestamp < ttl )
              => /\ call'.ret = history[key].data
                 /\ call'.provider_calls = 0
                 /\ metrics'.api_calls = metrics.api_calls]_vars

C7_Witness ==
    /\ call.op = "get_stock_data"
    /\ call.args = <<"XLK", "1mo", "1d">>
    /\ call.outcome = "not called"
    /\ call.ret = "frame2"
    /\ now = 59
    /\ \E k \in StockKeys : history[k] = [status |-> "fetched", data |-> "frame2", timestamp |-> 0]
    /\ has_monitor

(* C8 as stated: when the provider raises, get_stock_data, get_stock_info and
   get_sector_data each catch the exception, show an error banner and return
   None. *)
C8_FailureReturnsNoneAsStated ==
    call.outcome = "raise" =>
        /\ ~call.raised
        /\ call.banners # <<>>
        /\ call.ret = None

(* C8 amended: when the provider raises, no exception leaves the call and an
   error banner is shown; get_stock_data and get_sector_data return None,
   get_stock_info returns the empty dict. *)
C8_FailureHandling ==
    call.outcome = "raise" =>
        /\ ~call.raised
        /\ Len(call.banners) = 1
        /\ call.op \in {"get_stock_data", "get_sector_data"} => call.ret = None
        /\ call.op = "get_stock_info" => call.ret = EmptyDict

C8_Witness ==
    /\ call.op = "get_stock_info"
    /\ call.outcome = "raise"
    /\ call.ret = EmptyDict
    /\ call.banners = <<"Error fetching info">>

---------------------------------------------------------------------------
(* Claims about the file ingestion *)

(* C9: process_file dispatches on the declared MIME type alone: for each of the
   ten supported types it invokes exactly the routine registered for that type,
   whatever the file's name, and for any other type it invokes no extractor and
   returns (None, None). *)
C9_DispatchOnType ==
    processed.op = "process_file" =>
        LET t == processed.file.type
            r == processed.result
            expected ==
                IF t = "text/plain" THEN "_process_text"
                ELSE IF t = "application/pdf" THEN "_process_pdf"
                ELSE IF t = "application/vnd.openxmlformats-officedocument.wordprocessingml.document"
                     THEN "_process_docx"
                ELSE IF t = "application/vnd.openxmlformats-officedocument.presentationml.presentation"
                     THEN "_process_pptx"
                ELSE IF t \in {"application/vnd.openxmlformats-officedocument.spreadsheetml.sheet",
                               "application/vnd.ms-excel"}
                     THEN "_process_excel"
                ELSE IF t = "text/csv" THEN "_process_csv"
                ELSE IF t = "application/json" THEN "_process_json"
                ELSE "_process_xml"
        IN  IF t \in SupportedTypes
            THEN r.extractors = <<expected>>
            ELSE /\ r.extractors = <<>>
                 /\ r.content = PyNone
                 /\ r.metadata = PyNone

C9_Witness ==
    /\ processed.op = "process_file"
    /\ processed.file.type = "application/vnd.ms-excel"
    /\ processed.file.name = "notes.txt"
    /\ processed.result.extractors = <<"_process_excel">>
    /\ processed.result.content = Str("text")

(* C10: process_file never raises and returns either (content, metadata) with
   non-empty content and a metadata dict holding the extractor's counts and the
   file-info fields, or (None, None); (None, None) is what an unsupported type,
   an extractor that raises and an extractor that yields empty text give, and
   no pair has exactly one None. *)
C10_TwoOutcomes ==
    processed.op = "process_file" =>
        LET r == processed.result
            both == /\ r.content.kind = "str"
                    /\ r.content.value # ""
                    /\ r.metadata.kind = "dict"
                    /\ \A i \in 1..Len(r.extractors) :
                            MetadataKeys(r.extractors[i]) \subseteq r.metadata.keys
                    /\ FileInfoKeys \subseteq r.metadata.keys
            neither == r.content = PyNone /\ r.metadata = PyNone
        IN  /\ ~r.raised
            /\ both \/ neither
            /\ (\/ processed.file.type \notin SupportedTypes
                \/ processed.behaviour \in {"library_error", "undecodable_err", "read_error"}
                \/ processed.behaviour = "empty") => neither
            /\ processed.behaviour \in {"text", "undecodable"} => both

C10_Witness ==
    /\ processed.op = "process_file"
    /\ processed.behaviour = "empty"
    /\ processed.result.extractors = <<"_process_pdf">>
    /\ processed.result.content = PyNone
    /\ processed.result.metadata = PyNone
    /\ processed.result.banners = <<"Processing", "Failed to extract content">>

---------------------------------------------------------------------------
(* core/financial_analyzer.py: question answering *)

(* the ttl ai_powered_qa passes to cache.get *)
QATTL == 60

(* a text is its first 1000 characters (head) and the rest (tail) *)
Texts ==
    { [head |-> "h1", tail |-> "t1"], [head |-> "h1", tail |-> "t2"],
      [head |-> "", tail |-> ""] }
Questions == {"q1"}

(* hash(text[:1000]) *)
TextHash(text) == text.head

(* the values OPENAI_API_KEY can have when FinancialAnalyzer is constructed *)
ApiKeys == {None, "", "demo", "key-1"}

(* Configured that takes the placeholder "demo" for a key *)
ConfiguredDemoCounts(key) ==
    key # None /\ key # ""

(* self.api_key and self.api_key != "demo" *)
Configured(key) ==
    key # None /\ key # "" /\ key # "demo"

(* _get_fallback_answer: the keyword search over the whole text *)
FallbackAnswer(text, question) ==
    IF text.head = "" /\ text.tail = ""
    THEN "No content available to answer the question."
    ELSE "found for " \o question \o " in " \o text.head \o text.tail

NoResponse == "I couldn't generate a response. Please try rephrasing your question."

(* what the request to the LLM does: it raises (requests.post or
   response.json()), it answers with status 200 and a text part, or it
   answers with another status or without a text part *)
LLMOutcomes == {"raise", "ai1", "no text"}

(* _get_ai_answer that lets the exception of the request escape *)
AiAnswerUncaught(text, question, outcome) ==
    IF outcome = "raise" THEN "raised"
    ELSE IF outcome = "no text" THEN NoResponse
    ELSE outcome

(* _get_ai_answer(text, question) *)
AiAnswer(text, question, outcome) ==
    IF outcome = "raise" THEN FallbackAnswer(text, question)
    ELSE IF outcome = "no text" THEN NoResponse
    ELSE outcome

(* ai_powered_qa(text, question) of an analyzer holding key *)
AiPoweredQa(cs, m, t, key, text, question, outcome) ==
    LET cache_key == GenerateKey("qa_response",
                                 [text_hash |-> TextHash(text), question |-> question])
        cached_answer == GetReturn(cs, cache_key, QATTL, t)
        cs1 == GetStore(cs, cache_key, QATTL, t)
        m1 == GetMetrics(m, cs, cache_key, QATTL, t)
        answer == IF Configured(key)
                  THEN AiAnswer(text, question, outcome)
                  ELSE FallbackAnswer(text, question)
    IN  IF cached_answer # None
        THEN [store |-> cs1, metrics |-> m1, ret |-> cached_answer,
              http_requests |-> 0, source |-> "cache"]
        ELSE [store |-> SetStore(cs1, cache_key, answer, t), metrics |-> m1,
              ret |-> answer,
              http_requests |-> IF Configured(key) THEN 1 ELSE 0,
              source |-> IF ~Configured(key) THEN "_get_fallback_answer"
                         ELSE "_get_ai_answer"]

(* the instants at which questions are asked, in minutes *)
QAInstants == {0, 59, 60}

QAInit ==
    /\ use_session_state \in BOOLEAN
    /\ has_monitor \in BOOLEAN
    /\ use_session_state = FALSE => has_monitor = FALSE
    /\ session_cache_store = EmptyStore
    /\ instance_cache_store = EmptyStore
    /\ metrics = NewMetrics
    /\ now = 0
    /\ history = <<>>
    /\ last = NoCall
    /\ call = NoFetch
    /\ processed = NoFile
    /\ api_key \in ApiKeys
    /\ qa = [op |-> "none"]
    /\ response_times = <<>>
    /\ arrived = <<>>
    /\ analysis_run = [op |-> "none"]
    /\ forecast = [op |-> "none"]
    /\ decision = [op |-> "none"]

(* one call of financial_analyzer.ai_powered_qa *)
AskAnalyzer ==
    \E text \in Texts, question \in Questions, outcome \in LLMOutcomes :
        LET r == AiPoweredQa(CacheStore, metrics, now, api_key, text, question, outcome)
        IN  /\ Counted(r.metrics)
            /\ WriteStore(r.store)
            /\ metrics' = r.metrics
            /\ qa' = [op |-> "ai_powered_qa", text |-> text, question |-> question,
                      outcome |-> IF r.http_requests = 0 THEN "not called" ELSE outcome,
                      ret |-> r.ret, http_requests |-> r.http_requests,
                      source |-> r.source, shown |-> r.ret, banners |-> <<>>]
            /\ UNCHANGED <<use_session_state, has_monitor, now, last, history, call,
                           processed, api_key, response_times, arrived, analysis_run,
                           forecast, decision>>

(* main.py, GeminiAPI: what requests.post, raise_for_status and the parsing
   of the response do.  Without a valid key the service rejects the request
   and raise_for_status raises an HTTPError, a RequestException. *)
GeminiOutcomes(key) ==
    IF Configured(key)
    THEN {"RequestException", "Exception", "ai1", "no candidates"}
    ELSE {"RequestException"}

(* GeminiAPI.generate_content(prompt): the value returned and the st.error
   banners *)
GenerateContent(key, outcome) ==
    IF outcome = "RequestException"
    THEN [ret |-> None, banners |-> <<"API Error">>]
    ELSE IF outcome = "Exception"
    THEN [ret |-> None, banners |-> <<"Error processing response">>]
    ELSE IF outcome = "no candidates"
    THEN [ret |-> "No response generated", banners |-> <<>>]
    ELSE [ret |-> outcome, banners |-> <<>>]

(* GeminiAPI.answer_question(content, question): the prompt goes to
   generate_content whatever the key is *)
AnswerQuestion(key, content, question, outcome) ==
    GenerateContent(key, outcome)

(* render_document_analysis, the question box: if question: answer =
   self.gemini_api.answer_question(all_content, question), shown with
   st.success if truthy and replaced by the st.error banner otherwise *)
AskDashboard ==
    \E content \in Texts, question \in Questions :
      \E outcome \in GeminiOutcomes(api_key) :
        LET r == AnswerQuestion(api_key, content, question, outcome)
            answered == r.ret # None /\ r.ret # ""
        IN  /\ qa' = [op |-> "answer_question", text |-> content, question |-> question,
                      outcome |-> outcome, ret |-> r.ret, http_requests |-> 1,
                      source |-> "generate_content",
                      shown |-> IF answered THEN r.ret ELSE None,
                      banners |-> IF answered THEN r.banners
                                  ELSE r.banners \o <<"Failed to get AI response">>]
            /\ UNCHANGED <<use_session_state, session_cache_store,
                           instance_cache_store, has_monitor, metrics, now, last,
                           history, call, processed, api_key, response_times, arrived,
                           analysis_run, forecast, decision>>

(* time passes between two questions *)
QAElapse ==
    /\ \E t \in QAInstants : t > now /\ now' = t
    /\ UNCHANGED <<use_session_state, session_cache_store, instance_cache_store,
                   has_monitor, metrics, last, history, call, processed, app_vars>>

QANext ==
    \/ AskAnalyzer
    \/ AskDashboard
    \/ QAElapse

SpecQA == QAInit /\ [][QANext]_vars

(* Claims about question answering *)

(* the cache key of the question the step asks *)
QAKey(text, question) ==
    GenerateKey("qa_response", [text_hash |-> TextHash(text), question |-> question])

(* every answer _get_fallback_answer can give on the texts and questions drawn *)
FallbackAnswers ==
    {FallbackAnswer(text, question) : text \in Texts, question \in Questions}

(* C11 as stated: ai_powered_qa selects its answer source by key configuration:
   with the key unset, empty or "demo" the answer is a fallback answer and no
   HTTP request is sent; with a key configured the LLM is called, and if the
   call raises the fallback answer is returned. *)
C11_SourceByKeyAsStated ==
    [][(now' = now /\ qa'.op = "ai_powered_qa") =>
          /\ ~Configured(api_key) =>
                qa'.http_requests = 0 /\ qa'.ret \in FallbackAnswers
          /\ Configured(api_key) =>
                /\ qa'.http_requests = 1
                /\ qa'.outcome = "raise" =>
                      qa'.ret = FallbackAnswer(qa'.text, qa'.question)]_vars

(* C11, amended: an answer cached in the last 60 minutes for the same question
   and the same first 1000 characters of text is returned as it is, with no
   HTTP request and no search; otherwise the source is selected by the key
   configuration: with the key unset, empty or "demo" the answer is
   _get_fallback_answer's and no HTTP request is sent, with a key configured
   the LLM is called once, and if the call raises the fallback answer is
   returned. *)
C11_SourceByKey ==
    [][(now' = now /\ qa'.op = "ai_powered_qa") =>
          LET cached == GetReturn(CacheStore, QAKey(qa'.text, qa'.question), QATTL, now)
              fallback == FallbackAnswer(qa'.text, qa'.question)
          IN  /\ cached # None =>
                    qa'.ret = cached /\ qa'.http_requests = 0
              /\ (cached = None /\ ~Configured(api_key)) =>
                    qa'.ret = fallback /\ qa'.http_requests = 0
              /\ (cached = None /\ Configured(api_key)) =>
                    /\ qa'.http_requests = 1
                    /\ qa'.outcome = "raise" => qa'.ret = fallback
              /\ api_key \in {None, "", "demo"} =>
                    qa'.http_requests = 0 /\ qa'.ret \in FallbackAnswers]_vars

(* a configured analyzer whose request raised has answered by the fallback,
   an hour after the first question *)
C11_Witness ==
    /\ qa.op = "ai_powered_qa"
    /\ api_key = "key-1"
    /\ qa.outcome = "raise"
    /\ qa.ret = FallbackAnswer(qa.text, qa.question)
    /\ qa.text.tail = "t2"
    /\ now = 60

(* C12 as stated: in the dashboard's document Q&A a question asked while no
   LLM key is configured is still answered, by the string-search fallback,
   and does not end in the "Failed to get AI response" error. *)
C12_DashboardFallback ==
    [][(qa'.op = "answer_question" /\ qa' # qa /\ ~Configured(api_key)) =>
          /\ qa'.shown \in FallbackAnswers
          /\ \A i \in 1..Len(qa'.banners) :
                qa'.banners[i] # "Failed to get AI response"]_vars

---------------------------------------------------------------------------
(* core/forecasting_models.py: the ensemble forecast.  Prices are whole
   numbers; a weighted sum is kept in tenths of a price unit, the weights
   0.4 / 0.4 / 0.2 being 4 / 4 / 2 tenths. *)

MaxDays == 2

(* self.models, in the order of the dict *)
Models == <<"random_forest", "gradient_boost", "linear">>

(* self.model_weights, in tenths *)
model_weights ==
    [random_forest |-> 4, gradient_boost |-> 4, linear |-> 2]

(* a price, in tenths *)
Tenths(price) == 10 * price

(* what model.predict returns for one day *)
RawPredictions == {-10, 100, 120}

(* max(0, pred) *)
EnsurePositive(pred) ==
    IF pred > 0 THEN pred ELSE 0

(* sum(weight * preds[day] for preds, weight in ensemble_predictions) *)
RECURSIVE DayPred(_, _, _)
DayPred(ensemble_predictions, day, i) ==
    IF i > Len(ensemble_predictions) THEN 0
    ELSE ensemble_predictions[i].weight * ensemble_predictions[i].preds[day]
         + DayPred(ensemble_predictions, day, i + 1)

(* the loop over self.models: a model that raises in fit or predict is
   skipped, the others append (model_preds, weight) *)
RECURSIVE EnsemblePredictions(_, _, _, _)
EnsemblePredictions(raised, raw, days, i) ==
    IF i > Len(Models) THEN <<>>
    ELSE LET name == Models[i]
             rest == EnsemblePredictions(raised, raw, days, i + 1)
         IN  IF name \in raised THEN rest
             ELSE << [name |-> name, weight |-> model_weights[name],
                      preds |-> [day \in 1..days |-> EnsurePositive(raw[name][day])]] >>
                  \o rest

(* _generate_ensemble_predictions(market_data, days), in tenths; few_features
   is len(features) < 30, last_close is close_prices[-1] *)
GenerateEnsemblePredictions(few_features, last_close, raised, raw, days) ==
    LET ensemble_predictions == EnsemblePredictions(raised, raw, days, 1)
    IN  IF few_features \/ ensemble_predictions = <<>>
        THEN [day \in 1..days |-> Tenths(last_close)]
        ELSE [day \in 1..days |-> DayPred(ensemble_predictions, day, 1)]

ModelNames == {Models[i] : i \in 1..Len(Models)}

(* the calls drawn: the forecast length, whether there are fewer than 30
   feature rows, the models that raise, and what the others predict *)
EnsembleInit ==
    /\ use_session_state = FALSE
    /\ has_monitor = FALSE
    /\ session_cache_store = EmptyStore
    /\ instance_cache_store = EmptyStore
    /\ metrics = NewMetrics
    /\ now = 0
    /\ history = <<>>
    /\ last = NoCall
    /\ call = NoFetch
    /\ processed = NoFile
    /\ api_key = None
    /\ qa = [op |-> "none"]
    /\ response_times = <<>>
    /\ arrived = <<>>
    /\ analysis_run = [op |-> "none"]
    /\ \E days \in 1..MaxDays, few_features \in BOOLEAN, raised \in SUBSET ModelNames :
          \E raw \in [ModelNames \ raised -> [1..days -> RawPredictions]] :
              forecast = [op |-> "market_data", days |-> days,
                          few_features |-> few_features, raised |-> raised, raw |-> raw]
    /\ decision = [op |-> "none"]

(* one call of _generate_ensemble_predictions, the last close being 100 *)
Ensemble ==
    /\ forecast.op = "market_data"
    /\ forecast' =
          [op |-> "_generate_ensemble_predictions", days |-> forecast.days,
           few_features |-> forecast.few_features,
           contributed |-> IF forecast.few_features THEN <<>>
                           ELSE EnsemblePredictions(forecast.raised, forecast.raw,
                                                    forecast.days, 1),
           final_predictions |->
               GenerateEnsemblePredictions(forecast.few_features, 100, forecast.raised,
                                           forecast.raw, forecast.days)]
    /\ UNCHANGED <<use_session_state, session_cache_store, instance_cache_store,
                   has_monitor, metrics, now, last, history, call, processed,
                   api_key, qa, response_times, arrived, analysis_run, decision>>

EnsembleNext ==
    Ensemble

SpecEnsemble == EnsembleInit /\ [][EnsembleNext]_vars

(* Claims about the ensemble forecast *)

(* C13 as stated: for every forecast day the blended prediction lies between
   the smallest and the largest per-model prediction for that day among the
   models that contributed, also when one or two of the three models raised
   and were skipped. *)
C13_BlendWithinModels ==
    (forecast.op = "_generate_ensemble_predictions" /\ forecast.contributed # <<>>) =>
        \A day \in 1..forecast.days :
            /\ \E i \in 1..Len(forecast.contributed) :
                  Tenths(forecast.contributed[i].preds[day])
                      <= forecast.final_predictions[day]
            /\ \E i \in 1..Len(forecast.contributed) :
                  forecast.final_predictions[day]
                      <= Tenths(forecast.contributed[i].preds[day])

---------------------------------------------------------------------------
(* investment_strategy.py: the recommendation rule.  expected_return is in
   whole percent; combined_score, sentiment_score and the confidence are in
   hundredths (0.7 is 70). *)

(* class InvestmentAction *)
InvestmentAction == {"STRONG_BUY", "BUY", "HOLD", "WEAK_SELL", "SELL"}

(* abs(x) *)
Abs(x) == IF x < 0 THEN -x ELSE x

(* _determine_action whose strong-buy test admits a return of exactly 10 *)
DetermineActionInclusive(expected_return, combined_score, sentiment_score) ==
    IF expected_return >= 10 /\ combined_score > 70 /\ sentiment_score > 20
    THEN [action |-> "STRONG_BUY", confidence |-> 90]
    ELSE IF expected_return > 5 /\ combined_score > 60
    THEN [action |-> "BUY", confidence |-> 80]
    ELSE IF expected_return < -10 \/ (combined_score < 30 /\ sentiment_score < -30)
    THEN [action |-> "SELL", confidence |-> 80]
    ELSE IF expected_return < -5 \/ combined_score < 40
    THEN [action |-> "WEAK_SELL", confidence |-> 70]
    ELSE [action |-> "HOLD",
          confidence |-> IF Abs(expected_return) < 3 THEN 60 ELSE 50]

(* _determine_action(expected_return, combined_score, sentiment_score) *)
DetermineAction(expected_return, combined_score, sentiment_score) ==
    IF expected_return > 10 /\ combined_score > 70 /\ sentiment_score > 20
    THEN [action |-> "STRONG_BUY", confidence |-> 90]
    ELSE IF expected_return > 5 /\ combined_score > 60
    THEN [action |-> "BUY", confidence |-> 80]
    ELSE IF expected_return < -10 \/ (combined_score < 30 /\ sentiment_score < -30)
    THEN [action |-> "SELL", confidence |-> 80]
    ELSE IF expected_return < -5 \/ combined_score < 40
    THEN [action |-> "WEAK_SELL", confidence |-> 70]
    ELSE [action |-> "HOLD",
          confidence |-> IF Abs(expected_return) < 3 THEN 60 ELSE 50]

(* the arguments drawn: each threshold, and a value on either side of it *)
ExpectedReturns == {-11, -10, -6, -5, -4, -3, -2, 0, 2, 3, 4, 5, 6, 10, 11}
CombinedScores == {0, 29, 30, 39, 40, 60, 61, 70, 71, 100}
SentimentScores == {-31, -30, 0, 20, 21}

StrategyInit ==
    /\ use_session_state = FALSE
    /\ has_monitor = FALSE
    /\ session_cache_store = EmptyStore
    /\ instance_cache_store = EmptyStore
    /\ metrics = NewMetrics
    /\ now = 0
    /\ history = <<>>
    /\ last = NoCall
    /\ call = NoFetch
    /\ processed = NoFile
    /\ api_key = None
    /\ qa = [op |-> "none"]
    /\ response_times = <<>>
    /\ arrived = <<>>
    /\ analysis_run = [op |-> "none"]
    /\ forecast = [op |-> "none"]
    /\ \E expected_return \in ExpectedReturns, combined_score \in CombinedScores,
          sentiment_score \in SentimentScores :
              decision = [op |-> "arguments", expected_return |-> expected_return,
                          combined_score |-> combined_score,
                          sentiment_score |-> sentiment_score]

(* one call of _determine_action *)
DetermineActionCall ==
    /\ decision.op = "arguments"
    /\ decision' =
          LET r == DetermineAction(decision.expected_return, decision.combined_score,
                                   decision.sentiment_score)
          IN  [decision EXCEPT !.op = "_determine_action"]
                  @@ [action |-> r.action, confidence |-> r.confidence]
    /\ UNCHANGED <<use_session_state, session_cache_store, instance_cache_store,
                   has_monitor, metrics, now, last, history, call, processed,
                   api_key, qa, response_times, arrived, analysis_run, forecast>>

StrategyNext ==
    DetermineActionCall

SpecStrategy == StrategyInit /\ [][StrategyNext]_vars

(* Claims about the recommendation rule *)

(* C14: _determine_action is a total threshold table in fixed priority order:
   it returns exactly one of the five actions, the first matching of
   STRONG_BUY (return > 10, score > 0.7, sentiment > 0.2; confidence 0.9),
   BUY (return > 5, score > 0.6; 0.8), SELL (return < -10, or score < 0.3
   with sentiment < -0.3; 0.8), WEAK_SELL (return < -5 or score < 0.4; 0.7),
   else HOLD with confidence 0.6 when |return| < 3 and 0.5 otherwise. *)
C14_ThresholdTable ==
    decision.op = "_determine_action" =>
        LET ret == decision.expected_return
            score == decision.combined_score
            sentiment == decision.sentiment_score
            strong_buy == ret > 10 /\ score > 70 /\ sentiment > 20
            buy == ret > 5 /\ score > 60
            sell == ret < -10 \/ (score < 30 /\ sentiment < -30)
            weak_sell == ret < -5 \/ score < 40
            is(action, confidence) ==
                decision.action = action /\ decision.confidence = confidence
        IN  /\ decision.action \in InvestmentAction
            /\ strong_buy => is("STRONG_BUY", 90)
            /\ (~strong_buy /\ buy) => is("BUY", 80)
            /\ (~strong_buy /\ ~buy /\ sell) => is("SELL", 80)
            /\ (~strong_buy /\ ~buy /\ ~sell /\ weak_sell) => is("WEAK_SELL", 70)
            /\ (~strong_buy /\ ~buy /\ ~sell /\ ~weak_sell /\ -3 < ret /\ ret < 3) =>
                  is("HOLD", 60)
            /\ (~strong_buy /\ ~buy /\ ~sell /\ ~weak_sell /\ (ret <= -3 \/ ret >= 3)) =>
                  is("HOLD", 50)

(* a return above 10 with a score too low for any buy but no sell condition:
   the table falls through to HOLD with confidence 0.5 *)
C14_Witness ==
    /\ decision.op = "_determine_action"
    /\ decision.expected_return = 11
    /\ decision.combined_score = 60
    /\ decision.action = "HOLD"
    /\ decision.confidence = 50

---------------------------------------------------------------------------
(* core/performance_monitor.py: the counters and the response-time window.
   Response times are in milliseconds. *)

(* the length above which track_response_time drops the oldest sample *)
WindowSize == 100

MaxRequests == 2
MaxSamples == 102
MaxSlow == 1

(* the two response times of test_performance_monitoring: 0.3 s and 0.5 s *)
Fast == 300
Slow == 500
ResponseTimes == {Fast, Slow}

(* sum(self.response_times) *)
RECURSIVE Sum(_)
Sum(seq) ==
    IF seq = <<>> THEN 0 ELSE Head(seq) + Sum(Tail(seq))

(* the window after self.response_times.pop() : the newest sample is dropped *)
WindowDropNewest(times, response_time) ==
    LET appended == Append(times, response_time)
    IN  IF Len(appended) > WindowSize
        THEN SubSeq(appended, 1, Len(appended) - 1)
        ELSE appended

(* track_response_time: self.response_times after the append and the pop(0) *)
Window(times, response_time) ==
    LET appended == Append(times, response_time)
    IN  IF Len(appended) > WindowSize THEN Tail(appended) ELSE appended

(* get_cache_hit_rate that divides by the data requests of get_api_efficiency *)
GetCacheHitRateOverRequests(m) ==
    IF m.api_calls + m.cache_hits = 0 THEN Ratio(0, 1)
    ELSE Ratio(m.cache_hits, m.api_calls + m.cache_hits)

(* get_cache_hit_rate() *)
GetCacheHitRate(m) ==
    IF m.cache_hits + m.cache_misses = 0 THEN Ratio(0, 1)
    ELSE Ratio(m.cache_hits, m.cache_hits + m.cache_misses)

(* here history counts the track_cache_hit and track_cache_miss calls made *)
MonitorInit ==
    /\ use_session_state = TRUE
    /\ has_monitor = TRUE
    /\ session_cache_store = EmptyStore
    /\ instance_cache_store = EmptyStore
    /\ metrics = NewMetrics
    /\ now = 0
    /\ history = [track_cache_hit |-> 0, track_cache_miss |-> 0]
    /\ last = NoCall
    /\ call = NoFetch
    /\ processed = NoFile
    /\ AppIdle

TrackApiCall ==
    /\ Counted(track_api_call(metrics))
    /\ metrics' = track_api_call(metrics)
    /\ UNCHANGED <<use_session_state, session_cache_store, instance_cache_store,
                   has_monitor, now, last, history, call, processed, app_vars>>

TrackCacheHit ==
    /\ Counted(track_cache_hit(metrics))
    /\ metrics' = track_cache_hit(metrics)
    /\ history' = [history EXCEPT !.track_cache_hit = @ + 1]
    /\ UNCHANGED <<use_session_state, session_cache_store, instance_cache_store,
                   has_monitor, now, last, call, processed, app_vars>>

TrackCacheMiss ==
    /\ Counted(track_cache_miss(metrics))
    /\ metrics' = track_cache_miss(metrics)
    /\ history' = [history EXCEPT !.track_cache_miss = @ + 1]
    /\ UNCHANGED <<use_session_state, session_cache_store, instance_cache_store,
                   has_monitor, now, last, call, processed, app_vars>>

(* track_response_time(response_time) *)
TrackResponseTime(response_time) ==
    LET times == Window(response_times, response_time)
    IN  /\ response_times' = times
        /\ metrics' = [metrics EXCEPT
                          !.avg_response_time = Ratio(Sum(times), Len(times)),
                          !.total_requests = @ + 1]
        /\ arrived' = Append(arrived, response_time)
        /\ UNCHANGED <<use_session_state, session_cache_store, instance_cache_store,
                       has_monitor, now, last, history, call, processed,
                       api_key, qa, analysis_run, forecast, decision>>

(* a tracked call returns *)
TimedCall ==
    /\ metrics.total_requests < MaxRequests
    /\ \E response_time \in ResponseTimes : TrackResponseTime(response_time)

MonitorNext ==
    \/ TrackApiCall
    \/ TrackCacheHit
    \/ TrackCacheMiss
    \/ TimedCall

SpecMonitor == MonitorInit /\ [][MonitorNext]_vars

(* Claims about the performance monitor *)

(* C15: get_cache_hit_rate equals hits / (hits + misses) over all the
   track_cache_hit and track_cache_miss calls made so far, 0.0 when none has
   been made and 0.5 after one hit and one miss; track_api_call and
   track_response_time do not change it. *)
C15_HitRate ==
    LET rate == GetCacheHitRate(metrics)
        hits == history.track_cache_hit
        misses == history.track_cache_miss
    IN  /\ hits + misses = 0 => rate = Ratio(0, 1)
        /\ hits + misses > 0 =>
              rate.den > 0 /\ rate.num * (hits + misses) = hits * rate.den
        /\ (hits = 1 /\ misses = 1) => 2 * rate.num = rate.den

(* one hit and one miss, with an API call and a response time tracked too *)
C15_Witness ==
    /\ history.track_cache_hit = 1
    /\ history.track_cache_miss = 1
    /\ metrics.api_calls = 1
    /\ metrics.total_requests = 1
    /\ 2 * GetCacheHitRate(metrics).num = GetCacheHitRate(metrics).den

(* the number of slow samples among those tracked *)
RECURSIVE SlowCount(_)
SlowCount(seq) ==
    IF seq = <<>> THEN 0
    ELSE (IF Head(seq) = Slow THEN 1 ELSE 0) + SlowCount(Tail(seq))

(* a long run of tracked calls, a few of them slow *)
Sample ==
    /\ Len(arrived) < MaxSamples
    /\ \E response_time \in ResponseTimes :
          /\ response_time = Slow => SlowCount(arrived) < MaxSlow
          /\ TrackResponseTime(response_time)

WindowNext ==
    Sample

SpecWindow == MonitorInit /\ [][WindowNext]_vars

(* min(a, b) *)
Min(a, b) == IF a < b THEN a ELSE b

(* C17: the response-time window keeps only the last 100 samples: after n
   track_response_time calls, response_times holds exactly the most recent
   min(n, 100) values in arrival order, avg_response_time is the mean of that
   window, and total_requests equals n. *)
C17_Window ==
    LET n == Len(arrived)
        kept == Min(n, 100)
        recent == SubSeq(arrived, n - kept + 1, n)
    IN  /\ response_times = recent
        /\ metrics.total_requests = n
        /\ n > 0 => /\ metrics.avg_response_time.den > 0
                    /\ metrics.avg_response_time.num * kept
                           = Sum(recent) * metrics.avg_response_time.den

(* 102 samples tracked, the first of them slow: it has left the window *)
C17_Witness ==
    /\ Len(arrived) = 102
    /\ arrived[1] = Slow
    /\ Len(response_times) = 100
    /\ metrics.avg_response_time = Ratio(100 * Fast, 100)

---------------------------------------------------------------------------
(* main.py, render_document_analysis: the upload stage *)

(* the file limit of the stage *)
FileLimit == 5

MaxSelected == 7

(* uploaded_files[:5] that keeps the last five files *)
TruncateLatest(uploaded_files) ==
    IF Len(uploaded_files) > FileLimit
    THEN SubSeq(uploaded_files, Len(uploaded_files) - FileLimit + 1, Len(uploaded_files))
    ELSE uploaded_files

(* if uploaded_files and len(uploaded_files) > 5: uploaded_files = uploaded_files[:5] *)
Truncate(uploaded_files) ==
    IF Len(uploaded_files) > FileLimit
    THEN SubSeq(uploaded_files, 1, FileLimit)
    ELSE uploaded_files

(* the names of a list of files *)
NamesOf(files) ==
    [i \in 1..Len(files) |-> files[i].name]

(* the loop over uploaded_files: the files whose process_file call gave
   content and metadata, numbered by their position *)
RECURSIVE AllMetadata(_, _)
AllMetadata(files, i) ==
    IF i > Len(files) THEN <<>>
    ELSE (IF files[i].extracts
          THEN << [filename |-> files[i].name, file_number |-> i] >>
          ELSE <<>>)
         \o AllMetadata(files, i + 1)

(* one run of the stage over the files selected in the uploader *)
RenderDocumentAnalysis(selected) ==
    LET uploaded_files == Truncate(selected)
    IN  [op |-> "render_document_analysis",
         selected |-> selected,
         process_file_calls |-> NamesOf(uploaded_files),
         all_metadata |-> AllMetadata(uploaded_files, 1),
         banners |-> (IF Len(selected) > FileLimit
                      THEN <<"File Limit Exceeded", "Auto-Selected First 5 Files">>
                      ELSE <<>>)
                     \o (IF uploaded_files = <<>> THEN <<>>
                         ELSE IF Len(AllMetadata(uploaded_files, 1)) = Len(uploaded_files)
                         THEN <<"Processing Complete!">>
                         ELSE <<"Processing Failed">>)]

(* the selections drawn: up to MaxSelected files, named in upload order, each
   of which process_file can or cannot extract *)
UploadInit ==
    /\ use_session_state = FALSE
    /\ has_monitor = FALSE
    /\ session_cache_store = EmptyStore
    /\ instance_cache_store = EmptyStore
    /\ metrics = NewMetrics
    /\ now = 0
    /\ history = <<>>
    /\ last = NoCall
    /\ call = NoFetch
    /\ processed = NoFile
    /\ api_key = None
    /\ qa = [op |-> "none"]
    /\ response_times = <<>>
    /\ arrived = <<>>
    /\ \E n \in 0..MaxSelected :
          \E extracts \in [1..n -> BOOLEAN] :
              analysis_run = [op |-> "selected",
                              selected |-> [i \in 1..n |->
                                               [name |-> i, extracts |-> extracts[i]]]]
    /\ forecast = [op |-> "none"]
    /\ decision = [op |-> "none"]

(* the script runs the stage *)
RunDocumentAnalysis ==
    /\ analysis_run.op = "selected"
    /\ analysis_run' = RenderDocumentAnalysis(analysis_run.selected)
    /\ UNCHANGED <<use_session_state, session_cache_store, instance_cache_store,
                   has_monitor, metrics, now, last, history, call, processed,
                   api_key, qa, response_times, arrived, forecast, decision>>

UploadNext ==
    RunDocumentAnalysis

SpecUpload == UploadInit /\ [][UploadNext]_vars

(* Claims about the upload stage *)

(* C16: at most five uploaded documents are processed in one run of the
   document-analysis stage: when more than five files are selected,
   process_file is called only for the first five in upload order and the
   remaining files are never processed. *)
C16_AtMostFive ==
    analysis_run.op = "render_document_analysis" =>
        LET calls == analysis_run.process_file_calls
            selected == analysis_run.selected
        IN  /\ Len(calls) <= 5
            /\ Len(calls) = Min(Len(selected), 5)
            /\ \A i \in 1..Len(calls) : calls[i] = selected[i].name
            /\ \A i \in 1..Len(selected) :
                  i > 5 => \A j \in 1..Len(calls) : calls[j] # selected[i].name

(* seven files selected, five of them processed, one of which failed *)
C16_Witness ==
    /\ analysis_run.op = "render_document_analysis"
    /\ Len(analysis_run.selected) = 7
    /\ analysis_run.process_file_calls = <<1, 2, 3, 4, 5>>
    /\ Len(analysis_run.all_metadata) = 4

---------------------------------------------------------------------------
(* core/forecasting_models.py: the confidence bands.  The effective
   volatility is in tenths, sqrt((i + 1) / 252) in hundredths, z_score * 0.7 =
   1.372 in thousandths, so that a margin and a bound are in millionths of a
   price unit. *)

(* a price, in millionths *)
Millionths(price) == 1000000 * price

(* the largest r with r * r <= n *)
RECURSIVE ISqrtFrom(_, _)
ISqrtFrom(n, r) ==
    IF (r + 1) * (r + 1) > n THEN r ELSE ISqrtFrom(n, r + 1)

(* np.sqrt((i + 1) / 252), in hundredths, rounded down *)
SqrtOfYear(days_out) ==
    ISqrtFrom((days_out * 10000) \div 252, 0)

(* z_score * pred * time_vol * 0.7, in millionths *)
Margin(pred, effective_vol, days_out) ==
    1372 * pred * effective_vol * SqrtOfYear(days_out)

(* max(0.15, min(0.85, 0.5 + expected_return / (2 * effective_vol))), where
   expected_return = (final_price - current_price) / current_price, as the
   fraction it equals.  A division by zero of numpy floats gives inf, -inf or
   nan, and min(0.85, nan) is 0.85. *)
ProbUp(current_price, final_price, effective_vol) ==
    LET num == current_price * effective_vol + 10 * (final_price - current_price)
        den == 2 * current_price * effective_vol
    IN  IF den = 0
        THEN (IF current_price # 0 /\ final_price < current_price
              THEN Ratio(15, 100) ELSE Ratio(85, 100))
        ELSE IF 100 * num < 15 * den THEN Ratio(15, 100)
        ELSE IF 100 * num > 85 * den THEN Ratio(85, 100)
        ELSE Ratio(num, den)

(* _calculate_confidence_intervals(predictions, market_data) for a non-empty
   list of predictions; python_floats tells whether the predictions are
   Python floats, whose division by zero raises ZeroDivisionError, or numpy
   floats *)
CalculateConfidenceIntervals(predictions, effective_vol, python_floats) ==
    LET current_price == predictions[1]
        final_price == predictions[Len(predictions)]
        prob_up == ProbUp(current_price, final_price, effective_vol)
        bounds ==
            [upper_bounds |->
                 [i \in 1..Len(predictions) |->
                     Millionths(predictions[i]) + Margin(predictions[i], effective_vol, i)],
             lower_bounds |->
                 [i \in 1..Len(predictions) |->
                     LET below == Millionths(predictions[i])
                                      - Margin(predictions[i], effective_vol, i)
                     IN  IF below > 0 THEN below ELSE 0]]
    IN  IF python_floats /\ current_price = 0
        THEN [raised |-> TRUE]
        ELSE [raised |-> FALSE,
              upper_bounds |-> bounds.upper_bounds,
              lower_bounds |-> bounds.lower_bounds,
              probability_up |-> prob_up,
              probability_down |-> Ratio(prob_up.den - prob_up.num, prob_up.den),
              effective_volatility |-> effective_vol]

(* the predictions and volatilities drawn, none negative *)
Predictions == {0, 80, 100, 120}
Volatilities == {0, 2, 120}

BandsInit ==
    /\ use_session_state = FALSE
    /\ has_monitor = FALSE
    /\ session_cache_store = EmptyStore
    /\ instance_cache_store = EmptyStore
    /\ metrics = NewMetrics
    /\ now = 0
    /\ history = <<>>
    /\ last = NoCall
    /\ call = NoFetch
    /\ processed = NoFile
    /\ api_key = None
    /\ qa = [op |-> "none"]
    /\ response_times = <<>>
    /\ arrived = <<>>
    /\ analysis_run = [op |-> "none"]
    /\ \E days \in 1..MaxDays, effective_vol \in Volatilities, python_floats \in BOOLEAN :
          \E predictions \in [1..days -> Predictions] :
              forecast = [op |-> "predictions", predictions |-> predictions,
                          effective_vol |-> effective_vol,
                          python_floats |-> python_floats]
    /\ decision = [op |-> "none"]

(* one call of _calculate_confidence_intervals *)
ConfidenceIntervals ==
    /\ forecast.op = "predictions"
    /\ forecast' = [op |-> "_calculate_confidence_intervals",
                    predictions |-> forecast.predictions,
                    effective_vol |-> forecast.effective_vol,
                    python_floats |-> forecast.python_floats,
                    result |-> CalculateConfidenceIntervals(forecast.predictions,
                                                            forecast.effective_vol,
                                                            forecast.python_floats)]
    /\ UNCHANGED <<use_session_state, session_cache_store, instance_cache_store,
                   has_monitor, metrics, now, last, history, call, processed,
                   api_key, qa, response_times, arrived, analysis_run, decision>>

BandsNext ==
    ConfidenceIntervals

SpecBands == BandsInit /\ [][BandsNext]_vars

(* Claims about the confidence bands *)

(* C18 as stated: for non-negative predictions and a non-negative effective
   volatility, _calculate_confidence_intervals returns upper_bounds and
   lower_bounds of the same length as predictions with
   0 <= lower_bounds[i] <= predictions[i] <= upper_bounds[i] for every day i,
   probability_up within [0.15, 0.85], and
   probability_up + probability_down = 1. *)
C18_BandsBracket ==
    forecast.op = "_calculate_confidence_intervals" =>
        /\ forecast.result.raised = FALSE
        /\ LET r == forecast.result
               up == r.probability_up
               down == r.probability_down
           IN  /\ Len(r.upper_bounds) = Len(forecast.predictions)
               /\ Len(r.lower_bounds) = Len(forecast.predictions)
               /\ \A i \in 1..Len(forecast.predictions) :
                     /\ 0 <= r.lower_bounds[i]
                     /\ r.lower_bounds[i] <= Millionths(forecast.predictions[i])
                     /\ Millionths(forecast.predictions[i]) <= r.upper_bounds[i]
               /\ up.den > 0 /\ down.den > 0
               /\ 15 * up.den <= 100 * up.num
               /\ 100 * up.num <= 85 * up.den
               /\ up.num * down.den + down.num * up.den = up.den * down.den

---------------------------------------------------------------------------
(* main.py, render_forecasting: the dashboard forecast.  Prices are whole
   numbers of 1e-9 of the current price, so that ten percent of every price
   met within the forecast lengths drawn is a whole number. *)

(* st.slider("Forecast Period (days)", 7, 60, 30): the shortest forecast *)
MinForecastDays == 7

MaxForecastDays == 7

(* hist_data['Close'].iloc[-1] *)
CurrentPrice == 1000000000

(* what model.predict returns for a day: 15% below, 1% below, 1% above and
   20% above the current price *)
RawPrices == {850000000, 990000000, 1010000000, 1200000000}

(* df['Close'].pct_change(5).iloc[-1], in percent *)
Momenta == {-30, 0, 2, 5, 30}

(* last_price * max_daily_change, max_daily_change = 0.1 *)
MaxDailyChange(last_price) == last_price \div 10

(* the constraint on a day's prediction without its lower branch *)
CapUpOnly(next_price, last_price) ==
    IF Abs(next_price - last_price) > MaxDailyChange(last_price)
       /\ next_price > last_price
    THEN last_price + MaxDailyChange(last_price)
    ELSE next_price

(* if abs((next_price - last_price) / last_price) > max_daily_change: the
   price is moved to last_price * (1 + max_daily_change) or
   last_price * (1 - max_daily_change) *)
Cap(next_price, last_price) ==
    IF Abs(next_price - last_price) > MaxDailyChange(last_price)
    THEN IF next_price > last_price
         THEN last_price + MaxDailyChange(last_price)
         ELSE last_price - MaxDailyChange(last_price)
    ELSE next_price

(* the loop for i in range(days) of the Random-Forest branch *)
RECURSIVE RandomForestPredictions(_, _, _)
RandomForestPredictions(raw, last_price, i) ==
    IF i > Len(raw) THEN <<>>
    ELSE LET next_price == Cap(raw[i], last_price)
         IN  <<next_price>> \o RandomForestPredictions(raw, next_price, i + 1)

(* the simple momentum branch:
   [current_price * (1 + momentum * 0.1 * (i+1)) for i in range(days)] *)
MomentumPredictions(current_price, momentum, days) ==
    [i \in 1..days |-> current_price + (current_price \div 1000) * momentum * i]

(* conviction and directional_consistency from price_change =
   (final_price - current_price) / current_price *)
Direction(current_price, final_price) ==
    LET change == final_price - current_price
    IN  IF Abs(change) < current_price \div 50
        THEN [conviction |-> "Low", directional_consistency |-> "Neutral"]
        ELSE IF change > 0
        THEN [conviction |-> IF change > current_price \div 20 THEN "Moderate" ELSE "Low",
              directional_consistency |-> "Bullish"]
        ELSE [conviction |-> IF change < -(current_price \div 20) THEN "Moderate" ELSE "Low",
              directional_consistency |-> "Bearish"]

(* probability_up, as a fraction of the current price *)
ProbabilityUp(current_price, final_price) ==
    LET change == final_price - current_price
        d == Direction(current_price, final_price)
        hundredth == current_price \div 100
    IN  IF d.directional_consistency = "Bullish"
        THEN IF d.conviction = "Moderate"
             THEN Ratio(65 * hundredth
                            + (IF change >= (15 * hundredth) \div 2
                               THEN 15 * hundredth ELSE 2 * change),
                        current_price)
             ELSE Ratio(55 * hundredth, current_price)
        ELSE IF d.directional_consistency = "Bearish"
        THEN IF d.conviction = "Moderate"
             THEN Ratio(35 * hundredth
                            + (IF change <= -((15 * hundredth) \div 2)
                               THEN -(15 * hundredth) ELSE 2 * change),
                        current_price)
             ELSE Ratio(45 * hundredth, current_price)
        ELSE Ratio(50 * hundredth, current_price)

(* the forecast of one click on the forecast button (the confidence bounds
   are not modelled) *)
ForecastResult(current_price, days, robust, raw, momentum) ==
    LET predictions == IF robust
                       THEN RandomForestPredictions(raw, current_price, 1)
                       ELSE MomentumPredictions(current_price, momentum, days)
        final_price == predictions[Len(predictions)]
        d == Direction(current_price, final_price)
        probability_up == ProbabilityUp(current_price, final_price)
        prediction_direction == IF final_price > current_price THEN "Up" ELSE "Down"
        probability_direction ==
            IF 2 * probability_up.num > probability_up.den THEN "Up" ELSE "Down"
    IN  [op |-> "render_forecasting",
         current_price |-> current_price,
         forecast_days |-> days,
         model_type |-> IF robust THEN "Random Forest" ELSE "Simple Momentum",
         predictions |-> predictions,
         directional_consistency |-> d.directional_consistency,
         conviction_level |-> d.conviction,
         probability_up |-> probability_up,
         consistency_warning |->
             IF prediction_direction # probability_direction
             THEN "MODEL INCONSISTENCY: Predicts " \o prediction_direction
                      \o " but probability suggests " \o probability_direction
             ELSE ""]

(* the clicks drawn: the forecast length, whether at least 50 rows of
   features are left (robust), and what the model or the momentum gives *)
DashboardInit ==
    /\ use_session_state = FALSE
    /\ has_monitor = FALSE
    /\ session_cache_store = EmptyStore
    /\ instance_cache_store = EmptyStore
    /\ metrics = NewMetrics
    /\ now = 0
    /\ history = <<>>
    /\ last = NoCall
    /\ call = NoFetch
    /\ processed = NoFile
    /\ api_key = None
    /\ qa = [op |-> "none"]
    /\ response_times = <<>>
    /\ arrived = <<>>
    /\ analysis_run = [op |-> "none"]
    /\ \E days \in MinForecastDays..MaxForecastDays :
          \/ \E raw \in [1..days -> RawPrices] :
                forecast = [op |-> "clicked", days |-> days, robust |-> TRUE,
                            raw |-> raw, momentum |-> 0]
          \/ \E momentum \in Momenta :
                forecast = [op |-> "clicked", days |-> days, robust |-> FALSE,
                            raw |-> <<>>, momentum |-> momentum]
    /\ decision = [op |-> "none"]

(* render_forecasting after the click *)
RenderForecasting ==
    /\ forecast.op = "clicked"
    /\ forecast' = ForecastResult(CurrentPrice, forecast.days, forecast.robust,
                                  forecast.raw, forecast.momentum)
    /\ UNCHANGED <<use_session_state, session_cache_store, instance_cache_store,
                   has_monitor, metrics, now, last, history, call, processed,
                   api_key, qa, response_times, arrived, analysis_run, decision>>

DashboardNext ==
    RenderForecasting

SpecDashboard == DashboardInit /\ [][DashboardNext]_vars

(* Claims about the dashboard forecast *)

(* C19 as stated: probability_up is above 0.5 when the final predicted price
   is above the current price and is not above 0.5 otherwise, so the
   consistency_warning is always empty, for every price change including
   changes smaller than 2%. *)
C19_ProbabilityFollowsDirection ==
    forecast.op = "render_forecasting" =>
        LET final_price == forecast.predictions[Len(forecast.predictions)]
            above_half == 2 * forecast.probability_up.num > forecast.probability_up.den
        IN  /\ final_price > forecast.current_price => above_half
            /\ final_price <= forecast.current_price => ~above_half
            /\ forecast.consistency_warning = ""

(* the previous price of day i: the current price for the first day *)
PreviousPrice(i) ==
    IF i = 1 THEN forecast.current_price ELSE forecast.predictions[i - 1]

(* C20: in the Random-Forest forecast every predicted price differs from the
   previous predicted price (the current price for the first day) by at most
   10% of that previous price, for every forecast length drawn. *)
C20_DailyChangeCap ==
    (forecast.op = "render_forecasting" /\ forecast.model_type = "Random Forest") =>
        /\ Len(forecast.predictions) = forecast.forecast_days
        /\ \A i \in 1..Len(forecast.predictions) :
              /\ PreviousPrice(i) % 10 = 0
              /\ Abs(forecast.predictions[i] - PreviousPrice(i))
                     <= PreviousPrice(i) \div 10

(* a seven-day Random-Forest forecast capped upwards on the first day and
   downwards on the last two *)
C20_Witness ==
    /\ forecast.op = "render_forecasting"
    /\ forecast.model_type = "Random Forest"
    /\ forecast.forecast_days = 7
    /\ forecast.predictions[1] = 1100000000
    /\ forecast.predictions[2] = 1200000000
    /\ forecast.predictions[6] = 1080000000
    /\ forecast.predictions[7] = 972000000

---------------------------------------------------------------------------
(* core/data_fetcher.py: the market indices *)

(* the ttl get_market_indices passes to cache.get *)
IndicesTTL == 30

MaxIndexCounted == 10

(* self.market_indices, in the order of the dict *)
market_indices ==
    << [name |-> "SP500", symbol |-> "^GSPC"], [name |-> "NASDAQ", symbol |-> "^IXIC"],
       [name |-> "DOW", symbol |-> "^DJI"], [name |-> "VIX", symbol |-> "^VIX"] >>

IndexNames == {market_indices[i].name : i \in 1..Len(market_indices)}

(* what the provider can do for an index: raise, an empty frame, a frame *)
IndexOutcomes == {"raise", "empty", "raw1"}

(* indices_data[name] = {...}: the entry computed from the frame, as it
   prints in the dict *)
IndexEntry(name, data) ==
    name \o ":" \o data \o ";"

(* the loop over self.market_indices: one get_stock_data(symbol, "5d", "1h")
   each; an index whose frame is None adds nothing to indices_data *)
RECURSIVE IndicesLoop(_, _, _, _, _)
IndicesLoop(cs, m, t, outcomes, i) ==
    IF i > Len(market_indices)
    THEN [store |-> cs, metrics |-> m, items |-> "", provider_calls |-> 0,
          banners |-> <<>>]
    ELSE LET index == market_indices[i]
             one == StockData(cs, m, t, index.symbol, "5d", "1h", outcomes[index.name])
             rest == IndicesLoop(one.store, one.metrics, t, outcomes, i + 1)
         IN  [store |-> rest.store, metrics |-> rest.metrics,
              items |-> (IF one.ret # None THEN IndexEntry(index.name, one.ret) ELSE "")
                            \o rest.items,
              provider_calls |-> one.provider_calls + rest.provider_calls,
              banners |-> one.banners \o rest.banners]

(* get_market_indices that takes a cached empty dict for no entry
   (if cached_data:) *)
MarketIndicesTruthy(cs, m, t, outcomes) ==
    LET key == GenerateKey("market_data", [type |-> "market_indices"])
        cached_data == GetReturn(cs, key, IndicesTTL, t)
        cs1 == GetStore(cs, key, IndicesTTL, t)
        m1 == GetMetrics(m, cs, key, IndicesTTL, t)
        loop == IndicesLoop(cs1, m1, t, outcomes, 1)
        indices_data == "{" \o loop.items \o "}"
    IN  IF cached_data # None /\ cached_data # "{}"
        THEN [store |-> cs1, metrics |-> m1, ret |-> cached_data, provider_calls |-> 0,
              banners |-> <<>>, stored |-> FALSE]
        ELSE [store |-> SetStore(loop.store, key, indices_data, t),
              metrics |-> loop.metrics, ret |-> indices_data,
              provider_calls |-> loop.provider_calls, banners |-> loop.banners,
              stored |-> TRUE]

(* get_market_indices() *)
MarketIndices(cs, m, t, outcomes) ==
    LET key == GenerateKey("market_data", [type |-> "market_indices"])
        cached_data == GetReturn(cs, key, IndicesTTL, t)
        cs1 == GetStore(cs, key, IndicesTTL, t)
        m1 == GetMetrics(m, cs, key, IndicesTTL, t)
        loop == IndicesLoop(cs1, m1, t, outcomes, 1)
        indices_data == "{" \o loop.items \o "}"
    IN  IF cached_data # None
        THEN [store |-> cs1, metrics |-> m1, ret |-> cached_data, provider_calls |-> 0,
              banners |-> <<>>, stored |-> FALSE]
        ELSE [store |-> SetStore(loop.store, key, indices_data, t),
              metrics |-> loop.metrics, ret |-> indices_data,
              provider_calls |-> loop.provider_calls, banners |-> loop.banners,
              stored |-> TRUE]

(* the instants at which the indices are asked for, in minutes *)
IndexInstants == {0, 29, 30}

(* here history is the dict and the time of the last cache.set of
   get_market_indices *)
IndicesInit ==
    /\ use_session_state \in BOOLEAN
    /\ has_monitor \in BOOLEAN
    /\ use_session_state = FALSE => has_monitor = FALSE
    /\ session_cache_store = EmptyStore
    /\ instance_cache_store = EmptyStore
    /\ metrics = NewMetrics
    /\ now = 0
    /\ history = Untold("never")
    /\ last = NoCall
    /\ call = [op |-> "none", outcomes |-> <<>>, ret |-> None, provider_calls |-> 0,
               banners |-> <<>>]
    /\ processed = NoFile
    /\ AppIdle

(* one call of get_market_indices *)
GetMarketIndices ==
    \E outcomes \in [IndexNames -> IndexOutcomes] :
        LET r == MarketIndices(CacheStore, metrics, now, outcomes)
        IN  /\ r.metrics.api_calls + r.metrics.cache_hits + r.metrics.cache_misses
                   <= MaxIndexCounted
            /\ WriteStore(r.store)
            /\ metrics' = r.metrics
            /\ call' = [op |-> "get_market_indices",
                        outcomes |-> IF r.stored THEN outcomes ELSE <<>>,
                        ret |-> r.ret, provider_calls |-> r.provider_calls,
                        banners |-> r.banners]
            /\ history' = IF r.stored
                          THEN [status |-> "stored", data |-> r.ret, timestamp |-> now]
                          ELSE history
            /\ UNCHANGED <<use_session_state, has_monitor, now, last, processed,
                           app_vars>>

(* time passes between two calls *)
IndicesElapse ==
    /\ \E t \in IndexInstants : t > now /\ now' = t
    /\ UNCHANGED <<use_session_state, session_cache_store, instance_cache_store,
                   has_monitor, metrics, last, history, call, processed,
                   app_vars>>

IndicesNext ==
    \/ GetMarketIndices
    \/ IndicesElapse

SpecIndices == IndicesInit /\ [][IndicesNext]_vars

(* Claims about the market indices *)

(* C21: get_market_indices is cached for 30 minutes whatever it computed:
   once a call has returned a dict, also a partial or the empty dict of failed
   index fetches, every call made less than 30 minutes later returns that same
   dict and performs no fetch. *)
C21_IndicesCached ==
    [][( /\ now' = now
         /\ call'.op = "get_market_indices"
         /\ history.status = "stored"
         /\ now - history.timestamp < 30 )
       => /\ call'.ret = history.data
          /\ call'.provider_calls = 0
          /\ metrics'.api_calls = metrics.api_calls
          /\ history' = history]_vars

(* the empty dict of four failed fetches, served again 29 minutes later *)
C21_Witness ==
    /\ call.op = "get_market_indices"
    /\ call.ret = EmptyDict
    /\ call.provider_calls = 0
    /\ now = 29
    /\ history = [status |-> "stored", data |-> EmptyDict, timestamp |-> 0]

---------------------------------------------------------------------------
(* Further claims about the cache *)

(* C22: a get that misses because the entry is older than its TTL deletes
   that entry: any later get for the same key returns None, whatever TTL it
   passes (even one larger than the entry's age), until the next set on that
   key. *)
C22_ExpiredGetDeletes ==
    [][\A k \in Keys :
          (now' = now /\ last'.op = "get" /\ last'.key = k) =>
              /\ last'.outcome = "expired" => k \notin DOMAIN CacheStore'
              /\ history[k].status = "expired_read" =>
                    /\ last'.ret = None
                    /\ last'.outcome = "absent"
                    /\ k \notin DOMAIN CacheStore']_vars

(* a read with ttl 2 of an entry one minute old that misses, because a read
   with ttl 1 found it expired first *)
C22_Witness ==
    /\ last.op = "get"
    /\ last.ttl = 2
    /\ last.ret = None
    /\ last.outcome = "absent"
    /\ last.key \in Keys
    /\ history[last.key].status = "expired_read"
    /\ now - history[last.key].timestamp = 1

---------------------------------------------------------------------------
(* Further claims about the market-data access *)

(* C23: a failed market-data fetch is never cached: when the provider returns
   an empty frame or raises, get_stock_data returns None and adds no entry to
   the cache, so the next call with the same arguments calls the provider
   again; likewise get_stock_info adds no entry when the provider raises. *)
C23_FailureNotCached ==
    [][(now' = now /\ call'.op \in {"get_stock_data", "get_stock_info"}) =>
          LET key == IF call'.op = "get_stock_data"
                     THEN GenerateKey("stock_data",
                                      [symbol |-> call'.args[1], period |-> call'.args[2],
                                       interval |-> call'.args[3]])
                     ELSE GenerateKey("stock_info", [symbol |-> call'.args[1]])
              failed == IF call'.op = "get_stock_data"
                        THEN call'.outcome \in {"raise", "empty"}
                        ELSE call'.outcome = "raise"
          IN  /\ failed =>
                    /\ call'.op = "get_stock_data" => call'.ret = None
                    /\ key \notin DOMAIN CacheStore'
                    /\ DOMAIN CacheStore' \subseteq DOMAIN CacheStore
              /\ (call'.op = "get_stock_data" /\ key \notin DOMAIN CacheStore) =>
                    call'.provider_calls = 1]_vars

(* two calls, both to the provider and both failed, the second on an empty
   frame: nothing is in the cache *)
C23_Witness ==
    /\ call.op = "get_stock_data"
    /\ call.outcome = "empty"
    /\ call.ret = None
    /\ call.provider_calls = 1
    /\ has_monitor
    /\ metrics.api_calls = 2
    /\ metrics.cache_misses = 2
    /\ CacheStore = EmptyStore

====
